---- MODULE Spec2Model ----
(***************************************************************************)
(* FormatTableForSlides: the table pipeline of src/src/parser.ts,          *)
(* src/src/formatter.ts and src/src/transformer.ts, its caller             *)
(* updatePreview of src/src/main.ts, and src/src/storage.ts.               *)
(*                                                                         *)
(* A JavaScript string is modelled as the sequence of its characters, a    *)
(* character as a one-character TLA+ string.  '' is << >>.  A TableData is *)
(* a record; an optional field that is absent (undefined) is Undefined.    *)
(***************************************************************************)
EXTENDS Integers, Sequences, FiniteSets, TLC

VARIABLES
    pc,          \* the call that returned last
    text,        \* parseInput's argument text
    hasHeader,   \* parseInput's argument hasHeader
    lines,       \* parseInput's local lines
    delimiter,   \* parseInput's local delimiter; parseLine's argument
    line,        \* parseLine's argument line
    fields,      \* parseLine's return value
    data,        \* the TableData argument of the last call
    options,     \* the LayoutOptions argument of the last call
    blocks,      \* splitColumns' return value; mergeBlocks' argument
    result,      \* the TableData returned by the last call
    alignments,  \* detectAlignment's return value
    style,       \* the StyleOptions of the options
    format,      \* the FormatOptions of the options
    storage,     \* the item of localStorage under STORAGE_KEY
    loaded,      \* loadData's return value
    heap,        \* the arrays of the JavaScript heap, by address
    arg,         \* the tables (references) passed to the last stage
    ret          \* the tables (references) the last stage returned

vars ==
    <<pc, text, hasHeader, lines, delimiter, line, fields, data, options, blocks, result,
      alignments, style, format, storage, loaded, heap, arg, ret>>

(***************************************************************************)
(* Bounds of the model.                                                    *)
(***************************************************************************)
MaxTextLen == 5
MaxLineLen == 6
MaxRows == 4
MaxCols == 2
MaxSplit == 4
MaxBlocks == 3
MaxBlockRows == 2
MaxBlockCols == 2

(***************************************************************************)
(* Characters and strings.                                                 *)
(***************************************************************************)
TAB == "\t"
COMMA == ","
QUOTE == "\""
NL == "\n"
CR == "\r"
SP == " "
EmptyStr == << >>

\* The characters String.prototype.trim removes (those of the model's alphabet).
WhiteSpace == {TAB, NL, CR, SP}

Max(a, b) == IF a >= b THEN a ELSE b
Min(a, b) == IF a <= b THEN a ELSE b

\* A variant of Ceil: Math.floor(a / b).
CeilAsFloor(a, b) == a \div b

\* Math.ceil(a / b) for a >= 0 and b > 0.
Ceil(a, b) == (a + b - 1) \div b

RECURSIVE MaxOf(_)
\* Math.max(...xs) over a sequence of naturals that the caller has made non-empty.
MaxOf(xs) == IF xs = << >> THEN 0 ELSE Max(Head(xs), MaxOf(Tail(xs)))

\* Array(n).fill(v)
Fill(n, v) == [i \in 1..n |-> v]

RECURSIVE Flatten(_)
\* The concatenation of a sequence of sequences (used to state properties).
Flatten(xss) == IF xss = << >> THEN << >> ELSE Head(xss) \o Flatten(Tail(xss))

RECURSIVE TrimStart(_)
TrimStart(s) ==
    IF s # << >> /\ Head(s) \in WhiteSpace THEN TrimStart(Tail(s)) ELSE s

RECURSIVE TrimEnd(_)
TrimEnd(s) ==
    IF s # << >> /\ s[Len(s)] \in WhiteSpace
    THEN TrimEnd(SubSeq(s, 1, Len(s) - 1))
    ELSE s

\* String.prototype.trim
Trim(s) == TrimEnd(TrimStart(s))

RECURSIVE CountChar(_, _)
\* (text.match(/c/g) || []).length
CountChar(s, c) ==
    IF s = << >> THEN 0
    ELSE (IF Head(s) = c THEN 1 ELSE 0) + CountChar(Tail(s), c)

RECURSIVE SplitLinesFrom(_, _, _)
\* s.split(/\r?\n/) scanned from position i with the piece cur collected so far:
\* "\r\n" and "\n" separate pieces, a "\r" not followed by "\n" is ordinary text.
SplitLinesFrom(s, i, cur) ==
    IF i > Len(s) THEN <<cur>>
    ELSE IF s[i] = NL
         THEN <<cur>> \o SplitLinesFrom(s, i + 1, << >>)
    ELSE IF s[i] = CR /\ i + 1 <= Len(s) /\ s[i + 1] = NL
         THEN <<cur>> \o SplitLinesFrom(s, i + 2, << >>)
    ELSE SplitLinesFrom(s, i + 1, Append(cur, s[i]))

SplitLines(s) == SplitLinesFrom(s, 1, << >>)

(***************************************************************************)
(* TableData (src/unnamed/part_001).                                       *)
(***************************************************************************)
Undefined == [defined |-> FALSE, value |-> << >>]
Defined(v) == [defined |-> TRUE, value |-> v]

\* A TableData literal without separatorColumns and borderBoundaries.
TableData(h, r, hh) ==
    [headers |-> h, rows |-> r, hasHeader |-> hh,
     separatorColumns |-> Undefined, borderBoundaries |-> Undefined]

NoTable == TableData(<< >>, << >>, FALSE)

(***************************************************************************)
(* src/src/parser.ts                                                       *)
(***************************************************************************)
detectDelimiter(t) ==
    LET tabCount == CountChar(t, TAB)
        commaCount == CountChar(t, COMMA)
    IN IF tabCount >= commaCount THEN TAB ELSE COMMA

\* A variant of parseChar that knows no escaped quote: inside quotes every quote
\* closes the quoted section.
parseCharNoEscape(ln, delim, st) ==
    LET char == ln[st.i]
    IN IF st.inQuotes
       THEN IF char = QUOTE
            THEN [st EXCEPT !.i = @ + 1, !.inQuotes = FALSE]
            ELSE [st EXCEPT !.i = @ + 1, !.current = Append(@, char)]
       ELSE IF char = QUOTE
            THEN [st EXCEPT !.i = @ + 1, !.inQuotes = TRUE]
            ELSE IF char = delim
            THEN [i |-> st.i + 1, result |-> Append(st.result, Trim(st.current)),
                  current |-> << >>, inQuotes |-> FALSE]
            ELSE [st EXCEPT !.i = @ + 1, !.current = Append(@, char)]

\* One iteration of parseLine's loop. st holds the loop index i (1-based) and the
\* locals result, current and inQuotes; nextChar is undefined past the end of line.
parseChar(ln, delim, st) ==
    LET char == ln[st.i]
        nextIsQuote == st.i + 1 <= Len(ln) /\ ln[st.i + 1] = QUOTE
    IN IF st.inQuotes
       THEN IF char = QUOTE /\ nextIsQuote
            THEN [st EXCEPT !.i = @ + 2, !.current = Append(@, QUOTE)]
            ELSE IF char = QUOTE
            THEN [st EXCEPT !.i = @ + 1, !.inQuotes = FALSE]
            ELSE [st EXCEPT !.i = @ + 1, !.current = Append(@, char)]
       ELSE IF char = QUOTE
            THEN [st EXCEPT !.i = @ + 1, !.inQuotes = TRUE]
            ELSE IF char = delim
            THEN [i |-> st.i + 1, result |-> Append(st.result, Trim(st.current)),
                  current |-> << >>, inQuotes |-> FALSE]
            ELSE [st EXCEPT !.i = @ + 1, !.current = Append(@, char)]

RECURSIVE parseLineFrom(_, _, _)
\* parseLine's loop from the state st on, and the push after it.
parseLineFrom(ln, delim, st) ==
    IF st.i > Len(ln) THEN Append(st.result, Trim(st.current))
    ELSE parseLineFrom(ln, delim, parseChar(ln, delim, st))

parseLine(ln, delim) ==
    parseLineFrom(ln, delim, [i |-> 1, result |-> << >>, current |-> << >>, inQuotes |-> FALSE])

\* lines.map(line => parseLine(line, delimiter)).filter(row => row.length > 0)
parsedRows(lns, delim) ==
    SelectSeq([i \in 1..Len(lns) |-> parseLine(lns[i], delim)], LAMBDA row : Len(row) > 0)

\* The local lines of parseInput (<< >> on the early return).
parseInputLines(t) == IF Trim(t) = << >> THEN << >> ELSE SplitLines(Trim(t))

\* The local delimiter of parseInput (detectDelimiter's default on the early return).
parseInputDelimiter(t) == detectDelimiter(Trim(t))

parseInput(t, hh) ==
    LET trimmed == Trim(t)
        allRows == parsedRows(SplitLines(trimmed), detectDelimiter(trimmed))
        columnCount == MaxOf([i \in 1..Len(allRows) |-> Len(allRows[i])])
    IN IF trimmed = << >> THEN TableData(<< >>, << >>, hh)
       ELSE IF Len(allRows) = 0 THEN TableData(<< >>, << >>, hh)
       ELSE IF hh /\ Len(allRows) > 0
            THEN TableData(allRows[1], Tail(allRows), TRUE)
       ELSE TableData(Fill(columnCount, EmptyStr), allRows, FALSE)

\* [...row] padded with '' while it is shorter than n
PadTo(row, n) == row \o Fill(Max(n - Len(row), 0), EmptyStr)

\* A variant of normalizeColumns that pads to the header's width only.
normalizeColumnsToHeader(d) ==
    TableData(d.headers,
              [i \in 1..Len(d.rows) |-> PadTo(d.rows[i], Len(d.headers))],
              d.hasHeader)

normalizeColumns(d) ==
    LET maxColumns == Max(Len(d.headers), MaxOf([i \in 1..Len(d.rows) |-> Len(d.rows[i])]))
    IN TableData(PadTo(d.headers, maxColumns),
                 [i \in 1..Len(d.rows) |-> PadTo(d.rows[i], maxColumns)],
                 d.hasHeader)

(***************************************************************************)
(* src/src/storage.ts: values as JavaScript sees them, JSON text           *)
(***************************************************************************)
DecimalDigits == <<"0", "1", "2", "3", "4", "5", "6", "7", "8", "9">>

RECURSIVE ToDecimal(_)
\* String(n) for a natural number n.
ToDecimal(n) ==
    IF n < 10 THEN <<DecimalDigits[n + 1]>>
    ELSE Append(ToDecimal(n \div 10), DecimalDigits[(n % 10) + 1])

DigitValue(c) == CHOOSE i \in 0..9 : DecimalDigits[i + 1] = c

BACKSLASH == "\\"

\* A JavaScript value with its typeof. A string is a sequence of characters, or
\* (literal) one of the option names, which hold letters, digits, '-' and '#' only.
Str(s) == [type |-> "string", literal |-> FALSE, value |-> s]
Lit(s) == [type |-> "string", literal |-> TRUE, value |-> s]
Num(n) == [type |-> "number", literal |-> FALSE, value |-> n]
Bool(b) == [type |-> "boolean", literal |-> FALSE, value |-> b]
Arr(xs) == [type |-> "array", literal |-> FALSE, value |-> xs]
Obj(r) == [type |-> "object", literal |-> FALSE, value |-> r]
Undef == [type |-> "undefined", literal |-> FALSE, value |-> << >>]

\* v?.k
Get(v, k) ==
    IF v.type = "object" THEN (IF k \in DOMAIN v.value THEN v.value[k] ELSE Undef)
    ELSE Undef

\* The characters JSON.stringify writes for one character of a string.
escapeChar(c) ==
    IF c = QUOTE THEN <<BACKSLASH, QUOTE>>
    ELSE IF c = BACKSLASH THEN <<BACKSLASH, BACKSLASH>>
    ELSE IF c = NL THEN <<BACKSLASH, "n">>
    ELSE IF c = CR THEN <<BACKSLASH, "r">>
    ELSE IF c = TAB THEN <<BACKSLASH, "t">>
    ELSE <<c>>

\* JSON.stringify of a string: the quoted, escaped text.
QuoteJSONString(s) ==
    <<QUOTE>> \o Flatten([i \in 1..Len(s) |-> escapeChar(s[i])]) \o <<QUOTE>>

unescapeChar(c) ==
    IF c = "n" THEN NL ELSE IF c = "r" THEN CR ELSE IF c = "t" THEN TAB ELSE c

RECURSIVE unquoteFrom(_, _)
\* JSON.parse of a quoted string from index i on, up to the closing quote.
unquoteFrom(lexeme, i) ==
    IF i > Len(lexeme) \/ lexeme[i] = QUOTE THEN << >>
    ELSE IF lexeme[i] = BACKSLASH /\ i < Len(lexeme)
         THEN <<unescapeChar(lexeme[i + 1])>> \o unquoteFrom(lexeme, i + 2)
    ELSE <<lexeme[i]>> \o unquoteFrom(lexeme, i + 1)

UnquoteJSONString(lexeme) == unquoteFrom(lexeme, 2)

RECURSIVE ParseDecimal(_)
\* The natural number written by a string of digits.
ParseDecimal(ds) ==
    IF ds = << >> THEN 0
    ELSE 10 * ParseDecimal(SubSeq(ds, 1, Len(ds) - 1)) + DigitValue(ds[Len(ds)])

\* A JSON text, as its syntax tree with the characters of every string, number and
\* keyword: kind, the characters (text), the members or elements (parts).
JSONText(kind, literal, t, parts) ==
    [kind |-> kind, literal |-> literal, text |-> t, parts |-> parts]

RECURSIVE JSONstringify(_)
\* JSON.stringify(v): a member whose value is undefined is left out.
JSONstringify(v) ==
    IF v.type = "string"
    THEN JSONText("string", v.literal,
                  IF v.literal THEN v.value ELSE QuoteJSONString(v.value), << >>)
    ELSE IF v.type = "number" THEN JSONText("number", FALSE, ToDecimal(v.value), << >>)
    ELSE IF v.type = "boolean"
    THEN JSONText("boolean", FALSE,
                  IF v.value THEN <<"t", "r", "u", "e">> ELSE <<"f", "a", "l", "s", "e">>,
                  << >>)
    ELSE IF v.type = "array"
    THEN JSONText("array", FALSE, << >>,
                  [i \in 1..Len(v.value) |-> JSONstringify(v.value[i])])
    ELSE JSONText("object", FALSE, << >>,
                  [k \in {m \in DOMAIN v.value : v.value[m].type # "undefined"} |->
                      JSONstringify(v.value[k])])

RECURSIVE JSONparse(_)
\* JSON.parse(j)
JSONparse(j) ==
    IF j.kind = "string"
    THEN (IF j.literal THEN Lit(j.text) ELSE Str(UnquoteJSONString(j.text)))
    ELSE IF j.kind = "number" THEN Num(ParseDecimal(j.text))
    ELSE IF j.kind = "boolean" THEN Bool(j.text = <<"t", "r", "u", "e">>)
    ELSE IF j.kind = "array"
    THEN Arr([i \in 1..Len(j.parts) |-> JSONparse(j.parts[i])])
    ELSE Obj([k \in DOMAIN j.parts |-> JSONparse(j.parts[k])])

(***************************************************************************)
(* src/src/storage.ts                                                      *)
(***************************************************************************)
DEFAULT_OPTIONS ==
    [layout |-> [splitColumns |-> 1, separatorType |-> "column"],
     style |-> [theme |-> "standard-blue", zebra |-> TRUE, density |-> "standard",
                highlightWords |-> << >>, highlightPreset |-> "yellow",
                highlightCustomColor |-> "#FFFF99"],
     format |-> [addNumbers |-> FALSE, formatNumbers |-> TRUE],
     hasHeader |-> TRUE]

Themes == {"standard-blue", "dark-gray", "minimal", "accent-green"}
Densities == {"comfortable", "standard", "compact", "extra-comfortable", "extra-compact"}
HighlightPresets == {"yellow", "green", "pink", "blue", "orange", "custom"}

\* The item of localStorage under STORAGE_KEY: absent, or a JSON text.
NoItem == [present |-> FALSE, value |-> JSONText("null", FALSE, << >>, << >>)]
Item(j) == [present |-> TRUE, value |-> j]

\* The object { input, options } of saveData, as JavaScript sees it.
StoredData(input, o) ==
    Obj([input |-> Str(input),
         options |->
           Obj([layout |-> Obj([splitColumns |-> Num(o.layout.splitColumns),
                                separatorType |-> Lit(o.layout.separatorType)]),
                style |-> Obj([theme |-> Lit(o.style.theme),
                               zebra |-> Bool(o.style.zebra),
                               density |-> Lit(o.style.density),
                               highlightWords |->
                                   Arr([i \in 1..Len(o.style.highlightWords) |->
                                           Str(o.style.highlightWords[i])]),
                               highlightPreset |-> Lit(o.style.highlightPreset),
                               highlightCustomColor |->
                                   Lit(o.style.highlightCustomColor)]),
                format |-> Obj([addNumbers |-> Bool(o.format.addNumbers),
                                formatNumbers |-> Bool(o.format.formatNumbers)]),
                hasHeader |-> Bool(o.hasHeader)])])

\* saveData when localStorage.setItem returns; when it throws, the item stays.
saveData(input, o) == Item(JSONstringify(StoredData(input, o)))

isValidSplitColumns(value) == value.type = "number" /\ value.value >= 1 /\ value.value <= 5

isValidSeparatorType(value) ==
    value.type = "string" /\ value.literal /\ value.value \in {"column", "border"}

isValidTheme(value) == value.type = "string" /\ value.literal /\ value.value \in Themes

isValidDensity(value) == value.type = "string" /\ value.literal /\ value.value \in Densities

isValidHighlightPreset(value) ==
    value.type = "string" /\ value.literal /\ value.value \in HighlightPresets

mergeWithDefaults(o) ==
    IF o.type = "undefined" THEN DEFAULT_OPTIONS
    ELSE LET storedLayout == Get(o, "layout")
             storedStyle == Get(o, "style")
             storedFormat == Get(o, "format")
             d == DEFAULT_OPTIONS
             OrDefault(valid, v, default) == IF valid THEN v.value ELSE default
         IN [layout |->
               [splitColumns |->
                   OrDefault(isValidSplitColumns(Get(storedLayout, "splitColumns")),
                             Get(storedLayout, "splitColumns"), d.layout.splitColumns),
                separatorType |->
                   OrDefault(isValidSeparatorType(Get(storedLayout, "separatorType")),
                             Get(storedLayout, "separatorType"), d.layout.separatorType)],
             style |->
               [theme |-> OrDefault(isValidTheme(Get(storedStyle, "theme")),
                                    Get(storedStyle, "theme"), d.style.theme),
                zebra |-> OrDefault(Get(storedStyle, "zebra").type = "boolean",
                                    Get(storedStyle, "zebra"), d.style.zebra),
                density |-> OrDefault(isValidDensity(Get(storedStyle, "density")),
                                      Get(storedStyle, "density"), d.style.density),
                highlightWords |->
                   IF Get(storedStyle, "highlightWords").type = "array"
                   THEN [i \in 1..Len(Get(storedStyle, "highlightWords").value) |->
                            Get(storedStyle, "highlightWords").value[i].value]
                   ELSE d.style.highlightWords,
                highlightPreset |->
                   OrDefault(isValidHighlightPreset(Get(storedStyle, "highlightPreset")),
                             Get(storedStyle, "highlightPreset"), d.style.highlightPreset),
                highlightCustomColor |->
                   OrDefault(Get(storedStyle, "highlightCustomColor").type = "string",
                             Get(storedStyle, "highlightCustomColor"),
                             d.style.highlightCustomColor)],
             format |->
               [addNumbers |-> OrDefault(Get(storedFormat, "addNumbers").type = "boolean",
                                         Get(storedFormat, "addNumbers"), d.format.addNumbers),
                formatNumbers |->
                   OrDefault(Get(storedFormat, "formatNumbers").type = "boolean",
                             Get(storedFormat, "formatNumbers"), d.format.formatNumbers)],
             hasHeader |-> OrDefault(Get(o, "hasHeader").type = "boolean",
                                     Get(o, "hasHeader"), d.hasHeader)]

\* loadData's return value: null, or the stored input and options.
Null == [isNull |-> TRUE, input |-> << >>, options |-> DEFAULT_OPTIONS]

loadData(item) ==
    IF ~item.present THEN Null
    ELSE LET stored == JSONparse(item.value)
         IN [isNull |-> FALSE,
             input |-> IF Get(stored, "input").type = "string"
                       THEN Get(stored, "input").value ELSE << >>,
             options |-> mergeWithDefaults(Get(stored, "options"))]

(***************************************************************************)
(* The parser's callers: parseInput on a text, then normalizeColumns on    *)
(* what it returned (src/src/main.ts, updatePreview).                      *)
(***************************************************************************)
TextChars == {"a", COMMA, TAB, QUOTE, NL, CR, SP}

RECURSIVE SeqsUpTo(_, _)
\* All sequences over S of length at most n.
SeqsUpTo(S, n) ==
    IF n = 0 THEN {<< >>}
    ELSE LET shorter == SeqsUpTo(S, n - 1)
         IN shorter \cup {Append(s, c) : s \in {x \in shorter : Len(x) = n - 1}, c \in S}

NoOptions == [splitColumns |-> 1, separatorType |-> "none"]

InitParse ==
    /\ pc = "input"
    /\ ret = << >>
    /\ arg = << >>
    /\ heap = << >>
    /\ loaded = Null
    /\ storage = NoItem
    /\ format = DEFAULT_OPTIONS.format
    /\ style = DEFAULT_OPTIONS.style
    /\ alignments = << >>
    /\ text \in SeqsUpTo(TextChars, MaxTextLen)
    /\ hasHeader \in BOOLEAN
    /\ lines = << >>
    /\ delimiter = TAB
    /\ line = << >>
    /\ fields = << >>
    /\ data = NoTable
    /\ options = NoOptions
    /\ blocks = << >>
    /\ result = NoTable

CallParseInput ==
    /\ pc = "input"
    /\ pc' = "parsed"
    /\ lines' = parseInputLines(text)
    /\ delimiter' = parseInputDelimiter(text)
    /\ result' = parseInput(text, hasHeader)
    /\ UNCHANGED <<ret, arg, heap, loaded, storage, format, style, alignments, text,
                   hasHeader, line, fields, data, options, blocks>>

CallNormalizeColumns ==
    /\ pc = "parsed"
    /\ pc' = "normalized"
    /\ data' = result
    /\ result' = normalizeColumns(result)
    /\ UNCHANGED <<ret, arg, heap, loaded, storage, format, style, alignments, text,
                   hasHeader, lines, delimiter, line, fields, options, blocks>>

NextParse == CallParseInput \/ CallNormalizeColumns

SpecParse == InitParse /\ [][NextParse]_vars

(***************************************************************************)
(* parseLine on its own: one line and one delimiter.                       *)
(***************************************************************************)
LineChars == {"a", "b", COMMA, TAB, QUOTE}

InitLine ==
    /\ pc = "line"
    /\ ret = << >>
    /\ arg = << >>
    /\ heap = << >>
    /\ loaded = Null
    /\ storage = NoItem
    /\ format = DEFAULT_OPTIONS.format
    /\ style = DEFAULT_OPTIONS.style
    /\ alignments = << >>
    /\ line \in SeqsUpTo(LineChars, MaxLineLen)
    /\ delimiter \in {TAB, COMMA}
    /\ fields = << >>
    /\ text = << >>
    /\ hasHeader = FALSE
    /\ lines = << >>
    /\ data = NoTable
    /\ options = NoOptions
    /\ blocks = << >>
    /\ result = NoTable

CallParseLine ==
    /\ pc = "line"
    /\ pc' = "fields"
    /\ fields' = parseLine(line, delimiter)
    /\ UNCHANGED <<ret, arg, heap, loaded, storage, format, style, alignments, text,
                   hasHeader, lines, delimiter, line, data, options, blocks, result>>

NextLine == CallParseLine

SpecLine == InitLine /\ [][NextLine]_vars

(***************************************************************************)
(* src/src/formatter.ts                                                    *)
(***************************************************************************)
\* A variant of isEmptyRow: row.some instead of row.every.
isEmptyRowSome(row) == \E c \in 1..Len(row) : row[c] = EmptyStr

\* row.every(cell => cell === '')
isEmptyRow(row) == \A c \in 1..Len(row) : row[c] = EmptyStr

RECURSIVE numberRowsFrom(_, _, _)
\* data.rows.map(...) of addRowNumbers from row i on, currentNumber being the counter.
numberRowsFrom(rows, i, currentNumber) ==
    IF i > Len(rows) THEN << >>
    ELSE IF isEmptyRow(rows[i])
         THEN <<<<EmptyStr>> \o rows[i]>> \o numberRowsFrom(rows, i + 1, currentNumber)
         ELSE <<<<ToDecimal(currentNumber)>> \o rows[i]>>
                  \o numberRowsFrom(rows, i + 1, currentNumber + 1)

addRowNumbers(d) ==
    TableData(<<<<"N", "o", ".">>>> \o d.headers, numberRowsFrom(d.rows, 1, 1), d.hasHeader)

(***************************************************************************)
(* src/src/formatter.ts: detectAlignment, isNumeric                        *)
(***************************************************************************)
Digits == {"0", "1", "2", "3", "4", "5", "6", "7", "8", "9"}

\* The least index of s whose character is not in chars, Len(s) + 1 when there is none.
FirstNotIn(s, chars) ==
    IF \A i \in 1..Len(s) : s[i] \in chars THEN Len(s) + 1
    ELSE CHOOSE i \in 1..Len(s) : s[i] \notin chars /\ \A j \in 1..(i - 1) : s[j] \in chars

\* /^-?[C]+(\.\d+)?$/.test(s), C being the character class intChars (\d or [\d,]).
MatchesNumber(s, intChars) ==
    LET body == IF s # << >> /\ Head(s) = "-" THEN Tail(s) ELSE s
        k == FirstNotIn(body, intChars)
        rest == SubSeq(body, k, Len(body))
    IN /\ k >= 2
       /\ \/ rest = << >>
          \/ /\ Head(rest) = "."
             /\ Len(rest) >= 2
             /\ \A i \in 2..Len(rest) : rest[i] \in Digits

isNumeric(value) ==
    LET trimmed == Trim(value)
    IN IF trimmed = << >> THEN FALSE
       ELSE MatchesNumber(trimmed, Digits \cup {COMMA})

\* A variant of detectColumnAlignment whose ratio is taken over all values, the
\* empty ones included.
detectColumnAlignmentOverAll(values) ==
    LET nonEmptyValues == SelectSeq(values, LAMBDA v : Trim(v) # << >>)
        numericCount == Len(SelectSeq(nonEmptyValues, isNumeric))
    IN IF Len(nonEmptyValues) = 0 THEN "left"
       ELSE IF 2 * numericCount >= Len(values) THEN "right" ELSE "left"

\* numericCount / nonEmptyValues.length >= 0.5 is 2 * numericCount >= length.
detectColumnAlignment(values) ==
    LET nonEmptyValues == SelectSeq(values, LAMBDA v : Trim(v) # << >>)
        numericCount == Len(SelectSeq(nonEmptyValues, isNumeric))
    IN IF Len(nonEmptyValues) = 0 THEN "left"
       ELSE IF 2 * numericCount >= Len(nonEmptyValues) THEN "right" ELSE "left"

\* row[col] || ''   (col is 1-based here)
cellOrEmpty(row, col) == IF col <= Len(row) THEN row[col] ELSE EmptyStr

detectAlignment(d) ==
    [col \in 1..Len(d.headers) |->
        detectColumnAlignment([r \in 1..Len(d.rows) |-> cellOrEmpty(d.rows[r], col)])]

(***************************************************************************)
(* src/src/formatter.ts: formatNumbers                                     *)
(***************************************************************************)
RECURSIVE StripLeadingZeros(_)
\* The digits of a natural number without its leading zeros ("007" -> "7", "00" -> "0").
StripLeadingZeros(ds) ==
    IF Len(ds) > 1 /\ Head(ds) = "0" THEN StripLeadingZeros(Tail(ds)) ELSE ds

RECURSIVE StripTrailingZeros(_)
StripTrailingZeros(ds) ==
    IF ds # << >> /\ ds[Len(ds)] = "0" THEN StripTrailingZeros(SubSeq(ds, 1, Len(ds) - 1))
    ELSE ds

RECURSIVE AddOne(_)
\* The digits of n + 1.
AddOne(ds) ==
    IF ds = << >> THEN <<"1">>
    ELSE IF ds[Len(ds)] = "9" THEN Append(AddOne(SubSeq(ds, 1, Len(ds) - 1)), "0")
    ELSE Append(SubSeq(ds, 1, Len(ds) - 1), DecimalDigits[DigitValue(ds[Len(ds)]) + 2])

RECURSIVE SubOne(_)
\* The digits of n - 1, for n > 0, in the same number of digits.
SubOne(ds) ==
    IF ds[Len(ds)] = "0" THEN Append(SubOne(SubSeq(ds, 1, Len(ds) - 1)), "9")
    ELSE Append(SubSeq(ds, 1, Len(ds) - 1), DecimalDigits[DigitValue(ds[Len(ds)])])

\* a < b for two digit strings without leading zeros.
DigitsLess(a, b) ==
    \/ Len(a) < Len(b)
    \/ /\ Len(a) = Len(b)
       /\ \E i \in 1..Len(a) : /\ \A j \in 1..(i - 1) : a[j] = b[j]
                               /\ DigitValue(a[i]) < DigitValue(b[i])

\* n % 4, from the last two digits.
Mod4(ds) ==
    LET n == Len(ds)
    IN ((IF n >= 2 THEN 10 * DigitValue(ds[n - 1]) ELSE 0) + DigitValue(ds[n])) % 4

\* 2^53: a Number holds every integer below it, and every second one from it up to 2^54.
TwoPow53 ==
    <<"9", "0", "0", "7", "1", "9", "9", "2", "5", "4", "7", "4", "0", "9", "9", "2">>

\* The Number that parseFloat yields for a string of at most 16 digits, as its digits:
\* the integer itself below 2^53, the nearest even integer above (round to nearest, ties
\* to the even significand, that is to the multiple of 4).
parseFloat(ds) ==
    LET n == StripLeadingZeros(ds)
    IN IF DigitsLess(n, TwoPow53) \/ DigitValue(n[Len(n)]) % 2 = 0 THEN n
       ELSE IF Mod4(AddOne(n)) = 0 THEN AddOne(n) ELSE SubOne(n)

RECURSIVE groupThousands(_)
\* useGrouping of toLocaleString('ja-JP'): a comma before every group of three digits.
groupThousands(ds) ==
    IF Len(ds) <= 3 THEN ds
    ELSE groupThousands(SubSeq(ds, 1, Len(ds) - 3)) \o <<COMMA>>
             \o SubSeq(ds, Len(ds) - 2, Len(ds))

\* num.toLocaleString('ja-JP') for the Number of sign neg, integer digits int and
\* fraction digits frac (at most three: maximumFractionDigits), -0 printed as "-0".
toLocaleString(neg, int, frac) ==
    LET f == StripTrailingZeros(frac)
    IN (IF neg THEN <<"-">> ELSE << >>) \o groupThousands(int)
           \o (IF f = << >> THEN << >> ELSE <<".">> \o f)

\* isNaN(num) is never true for a string that matches numericPattern.
formatNumberCell(value) ==
    LET trimmed == Trim(value)
        neg == trimmed # << >> /\ Head(trimmed) = "-"
        body == IF neg THEN Tail(trimmed) ELSE trimmed
        k == FirstNotIn(body, Digits)
    IN IF trimmed = << >> THEN value
       ELSE IF ~MatchesNumber(trimmed, Digits) THEN value
       ELSE toLocaleString(neg, parseFloat(SubSeq(body, 1, k - 1)),
                           SubSeq(body, k + 1, Len(body)))

formatNumbers(d) ==
    TableData(d.headers,
              [r \in 1..Len(d.rows) |->
                  [c \in 1..Len(d.rows[r]) |-> formatNumberCell(d.rows[r][c])]],
              d.hasHeader)

(***************************************************************************)
(* src/src/transformer.ts                                                  *)
(***************************************************************************)
\* A variant of splitBlock that does not pad a short block.
splitBlockNoPad(d, rowsPerColumn, col) ==
    LET totalRows == Len(d.rows)
        startIndex == col * rowsPerColumn
        endIndex == Min(startIndex + rowsPerColumn, totalRows)
    IN TableData(d.headers, SubSeq(d.rows, startIndex + 1, endIndex), d.hasHeader)

\* One block of splitColumns: the body of its loop for the 0-based index col.
splitBlock(d, rowsPerColumn, col) ==
    LET totalRows == Len(d.rows)
        startIndex == col * rowsPerColumn
        endIndex == Min(startIndex + rowsPerColumn, totalRows)
        blankRow == Fill(Len(d.headers), EmptyStr)
        blockRows == SubSeq(d.rows, startIndex + 1, endIndex)
    IN IF startIndex >= totalRows
       THEN TableData(d.headers, Fill(rowsPerColumn, blankRow), d.hasHeader)
       ELSE TableData(d.headers,
                      blockRows \o Fill(Max(rowsPerColumn - Len(blockRows), 0), blankRow),
                      d.hasHeader)

\* A variant of splitColumns that splits a table without rows too.
splitColumnsNoRowGuard(d, columns) ==
    IF columns <= 1 THEN <<d>>
    ELSE LET rowsPerColumn == Ceil(Len(d.rows), columns)
         IN [b \in 1..columns |-> splitBlock(d, rowsPerColumn, b - 1)]

splitColumns(d, columns) ==
    IF columns <= 1 \/ Len(d.rows) = 0 THEN <<d>>
    ELSE LET rowsPerColumn == Ceil(Len(d.rows), columns)
         IN [b \in 1..columns |-> splitBlock(d, rowsPerColumn, b - 1)]

\* block.rows[i] || Array(block.headers.length).fill('')   (i is 1-based here)
blockRow(block, i) ==
    IF i <= Len(block.rows) THEN block.rows[i] ELSE Fill(Len(block.headers), EmptyStr)

\* A variant of addSeparator that adds the separator's header cell only.
addSeparatorHeaderOnly(acc) ==
    [acc EXCEPT !.separatorColumns = Append(@, Len(acc.mergedHeaders)),
                !.mergedHeaders = Append(@, EmptyStr)]

\* The separator column of mergeBlocks: its 0-based index is recorded, then a ''
\* header and a '' cell in every merged row are pushed.
addSeparator(acc) ==
    [acc EXCEPT !.separatorColumns = Append(@, Len(acc.mergedHeaders)),
                !.mergedHeaders = Append(@, EmptyStr),
                !.mergedRows = [i \in 1..Len(@) |-> Append(@[i], EmptyStr)]]

\* A variant of addBorder that records the next block's first column.
addBorderAtNextColumn(acc) ==
    [acc EXCEPT !.borderBoundaries = Append(@, Len(acc.mergedHeaders))]

\* The border boundary of mergeBlocks: the 0-based index of the last column merged
\* so far is recorded.
addBorder(acc) ==
    [acc EXCEPT !.borderBoundaries = Append(@, Len(acc.mergedHeaders) - 1)]

\* The block's headers and rows are pushed at the right of the merged ones.
appendBlock(acc, block) ==
    [acc EXCEPT !.mergedHeaders = @ \o block.headers,
                !.mergedRows = [i \in 1..Len(@) |-> @[i] \o blockRow(block, i)]]

\* The callback of blocks.forEach in mergeBlocks for the block of 0-based index
\* blockIndex; acc holds the locals mergedHeaders, mergedRows, separatorColumns and
\* borderBoundaries.
mergeBlock(acc, block, blockIndex, separatorType) ==
    LET acc1 == IF blockIndex > 0 /\ separatorType = "column" THEN addSeparator(acc) ELSE acc
        acc2 == IF blockIndex > 0 /\ separatorType = "border" THEN addBorder(acc1) ELSE acc1
    IN appendBlock(acc2, block)

RECURSIVE mergeFrom(_, _, _, _)
\* blocks.forEach of mergeBlocks from the block at position k (1-based) on.
mergeFrom(bs, separatorType, k, acc) ==
    IF k > Len(bs) THEN acc
    ELSE mergeFrom(bs, separatorType, k + 1, mergeBlock(acc, bs[k], k - 1, separatorType))

\* A variant of mergeBlocks that always returns both index lists, empty or not.
mergeBlocksAlwaysLists(bs, opts) ==
    IF Len(bs) = 0 THEN TableData(<< >>, << >>, FALSE)
    ELSE IF Len(bs) = 1 THEN bs[1]
    ELSE LET rowCount == MaxOf([k \in 1..Len(bs) |-> Len(bs[k].rows)])
             m == mergeFrom(bs, opts.separatorType, 1,
                      [mergedHeaders |-> << >>,
                       mergedRows |-> Fill(rowCount, << >>),
                       separatorColumns |-> << >>,
                       borderBoundaries |-> << >>])
         IN [headers |-> m.mergedHeaders,
             rows |-> m.mergedRows,
             hasHeader |-> bs[1].hasHeader,
             separatorColumns |-> Defined(m.separatorColumns),
             borderBoundaries |-> Defined(m.borderBoundaries)]

mergeBlocks(bs, opts) ==
    IF Len(bs) = 0 THEN TableData(<< >>, << >>, FALSE)
    ELSE IF Len(bs) = 1 THEN bs[1]
    ELSE LET rowCount == MaxOf([k \in 1..Len(bs) |-> Len(bs[k].rows)])
             m == mergeFrom(bs, opts.separatorType, 1,
                      [mergedHeaders |-> << >>,
                       mergedRows |-> Fill(rowCount, << >>),
                       separatorColumns |-> << >>,
                       borderBoundaries |-> << >>])
         IN [headers |-> m.mergedHeaders,
             rows |-> m.mergedRows,
             hasHeader |-> bs[1].hasHeader,
             separatorColumns |-> IF Len(m.separatorColumns) > 0
                                  THEN Defined(m.separatorColumns) ELSE Undefined,
             borderBoundaries |-> IF Len(m.borderBoundaries) > 0
                                  THEN Defined(m.borderBoundaries) ELSE Undefined]

transformLayout(d, opts) == mergeBlocks(splitColumns(d, opts.splitColumns), opts)

(***************************************************************************)
(* addRowNumbers on a normalized table.                                    *)
(***************************************************************************)
HeaderCell(c) == <<"h">> \o ToDecimal(c)
LabelCell(r, c) == <<"r">> \o ToDecimal(r) \o <<"c">> \o ToDecimal(c)

\* The uniform table of the rows rs (w cells each) under labelled headers.
FormatTable(w, rs, hh) == TableData([c \in 1..w |-> HeaderCell(c)], rs, hh)

\* The cells of the tables addRowNumbers is called on.
FormatCells == {EmptyStr, <<"x">>}

InitFormat ==
    /\ pc = "ready"
    /\ ret = << >>
    /\ arg = << >>
    /\ heap = << >>
    /\ loaded = Null
    /\ storage = NoItem
    /\ format = DEFAULT_OPTIONS.format
    /\ style = DEFAULT_OPTIONS.style
    /\ alignments = << >>
    /\ \E w \in 0..MaxCols, n \in 0..MaxRows :
         \E rs \in [1..n -> [1..w -> FormatCells]], hh \in BOOLEAN :
            data = FormatTable(w, rs, hh)
    /\ result = NoTable
    /\ text = << >>
    /\ hasHeader = FALSE
    /\ lines = << >>
    /\ delimiter = TAB
    /\ line = << >>
    /\ fields = << >>
    /\ options = NoOptions
    /\ blocks = << >>

CallAddRowNumbers ==
    /\ pc = "ready"
    /\ pc' = "numbered"
    /\ result' = addRowNumbers(data)
    /\ UNCHANGED <<ret, arg, heap, loaded, storage, format, style, alignments, text,
                   hasHeader, lines, delimiter, line, fields, data, options, blocks>>

NextFormat == CallAddRowNumbers

SpecFormat == InitFormat /\ [][NextFormat]_vars

(***************************************************************************)
(* splitColumns and transformLayout on a normalized table.                 *)
(***************************************************************************)
SeparatorTypes == {"none", "column", "border"}

\* The uniform table of w columns and n rows in which the rows of blank are all-empty
\* and every other cell is labelled by its position; the headers are labelled when
\* labelled holds and '' otherwise; marks puts a separatorColumns or a
\* borderBoundaries on it.
LayoutTable(w, n, blank, labelled, hh, marks) ==
    [headers |-> [c \in 1..w |-> IF labelled THEN HeaderCell(c) ELSE EmptyStr],
     rows |-> [r \in 1..n |-> IF r \in blank THEN Fill(w, EmptyStr)
                                             ELSE [c \in 1..w |-> LabelCell(r, c)]],
     hasHeader |-> hh,
     separatorColumns |-> IF marks = "column" THEN Defined(<<0>>) ELSE Undefined,
     borderBoundaries |-> IF marks = "border" THEN Defined(<<0>>) ELSE Undefined]

InitLayout ==
    /\ pc = "ready"
    /\ ret = << >>
    /\ arg = << >>
    /\ heap = << >>
    /\ loaded = Null
    /\ storage = NoItem
    /\ format = DEFAULT_OPTIONS.format
    /\ style = DEFAULT_OPTIONS.style
    /\ alignments = << >>
    /\ \E w \in 0..MaxCols, n \in 0..MaxRows :
         \E blank \in SUBSET (1..n), labelled \in BOOLEAN, hh \in BOOLEAN,
            marks \in SeparatorTypes :
            data = LayoutTable(w, n, blank, labelled, hh, marks)
    /\ options \in [splitColumns : (-1)..MaxSplit, separatorType : SeparatorTypes]
    /\ blocks = << >>
    /\ result = NoTable
    /\ text = << >>
    /\ hasHeader = FALSE
    /\ lines = << >>
    /\ delimiter = TAB
    /\ line = << >>
    /\ fields = << >>

CallSplitColumns ==
    /\ pc = "ready"
    /\ pc' = "split"
    /\ blocks' = splitColumns(data, options.splitColumns)
    /\ UNCHANGED <<ret, arg, heap, loaded, storage, format, style, alignments, text,
                   hasHeader, lines, delimiter, line, fields, data, options, result>>

CallTransformLayout ==
    /\ pc = "ready"
    /\ pc' = "laid"
    /\ result' = transformLayout(data, options)
    /\ UNCHANGED <<ret, arg, heap, loaded, storage, format, style, alignments, text,
                   hasHeader, lines, delimiter, line, fields, data, options, blocks>>

NextLayout == CallSplitColumns \/ CallTransformLayout

SpecLayout == InitLayout /\ [][NextLayout]_vars

(***************************************************************************)
(* mergeBlocks on a list of blocks.  Every block is a uniform table (each  *)
(* row has headers.length cells, the invariant normalizeColumns            *)
(* establishes before any later stage runs); the blocks of one list may    *)
(* differ in width and height, and a block may have no column or no row.   *)
(***************************************************************************)
BlockOf(shape, hh) ==
    TableData([c \in 1..shape[1] |-> <<"h">>],
              [r \in 1..shape[2] |-> [c \in 1..shape[1] |-> <<"x">>]],
              hh)

BlockShapes == (0..MaxBlockCols) \X (0..MaxBlockRows)

\* The list of the blocks of the given shapes: the first block has hasHeader = first,
\* the others the opposite.
BlockList(shapes, first) ==
    [k \in 1..Len(shapes) |-> BlockOf(shapes[k], IF k = 1 THEN first ELSE ~first)]

InitMerge ==
    /\ pc = "blocks"
    /\ ret = << >>
    /\ arg = << >>
    /\ heap = << >>
    /\ loaded = Null
    /\ storage = NoItem
    /\ format = DEFAULT_OPTIONS.format
    /\ style = DEFAULT_OPTIONS.style
    /\ alignments = << >>
    /\ \E n \in 0..MaxBlocks :
         \E shapes \in [1..n -> BlockShapes], first \in BOOLEAN :
            blocks = BlockList(shapes, first)
    /\ options \in [splitColumns : {MaxSplit}, separatorType : SeparatorTypes]
    /\ data = NoTable
    /\ result = NoTable
    /\ text = << >>
    /\ hasHeader = FALSE
    /\ lines = << >>
    /\ delimiter = TAB
    /\ line = << >>
    /\ fields = << >>

CallMergeBlocks ==
    /\ pc = "blocks"
    /\ pc' = "merged"
    /\ result' = mergeBlocks(blocks, options)
    /\ UNCHANGED <<ret, arg, heap, loaded, storage, format, style, alignments, text,
                   hasHeader, lines, delimiter, line, fields, data, options, blocks>>

NextMerge == CallMergeBlocks

SpecMerge == InitMerge /\ [][NextMerge]_vars

(***************************************************************************)
(* detectAlignment on a table (src/src/renderer.ts, renderTable).  The     *)
(* cells are trimmed strings, as parseLine and formatNumberCell make them. *)
(***************************************************************************)
MaxAlignRows == 3
MaxAlignCols == 2

\* '', a value isNumeric accepts (-1,5) and one it rejects (1.).
AlignCells == {EmptyStr, <<"-", "1", COMMA, "5">>, <<"1", ".">>}

InitAlign ==
    /\ pc = "ready"
    /\ ret = << >>
    /\ arg = << >>
    /\ heap = << >>
    /\ loaded = Null
    /\ storage = NoItem
    /\ format = DEFAULT_OPTIONS.format
    /\ style = DEFAULT_OPTIONS.style
    /\ \E w \in 0..MaxAlignCols, n \in 0..MaxAlignRows :
         \E rs \in [1..n -> [1..w -> AlignCells]] :
            data = FormatTable(w, rs, TRUE)
    /\ alignments = << >>
    /\ result = NoTable
    /\ text = << >>
    /\ hasHeader = FALSE
    /\ lines = << >>
    /\ delimiter = TAB
    /\ line = << >>
    /\ fields = << >>
    /\ options = NoOptions
    /\ blocks = << >>

CallDetectAlignment ==
    /\ pc = "ready"
    /\ pc' = "aligned"
    /\ alignments' = detectAlignment(data)
    /\ UNCHANGED <<ret, arg, heap, loaded, storage, format, style, text, hasHeader,
                   lines, delimiter, line, fields, data, options, blocks, result>>

NextAlign == CallDetectAlignment

SpecAlign == InitAlign /\ [][NextAlign]_vars

(***************************************************************************)
(* formatNumbers on its own (SpecNumbers).                                 *)
(***************************************************************************)
MaxNumRows == 2
MaxNumCols == 1

\* '', 'abc', '1.', ' 1234567 ', '-1000', '007', '1.50' and 2^53 + 1.
NumberCells ==
    { EmptyStr,
      <<"a", "b", "c">>,
      <<"1", ".">>,
      <<SP, "1", "2", "3", "4", "5", "6", "7", SP>>,
      <<"-", "1", "0", "0", "0">>,
      <<"0", "0", "7">>,
      <<"1", ".", "5", "0">>,
      <<"9", "0", "0", "7", "1", "9", "9", "2", "5", "4", "7", "4", "0", "9", "9", "3">> }

InitNumbers ==
    /\ pc = "ready"
    /\ ret = << >>
    /\ arg = << >>
    /\ heap = << >>
    /\ loaded = Null
    /\ storage = NoItem
    /\ format = DEFAULT_OPTIONS.format
    /\ style = DEFAULT_OPTIONS.style
    /\ \E w \in 0..MaxNumCols, n \in 0..MaxNumRows, hh \in BOOLEAN :
         \E rs \in [1..n -> [1..w -> NumberCells]] :
            data = FormatTable(w, rs, hh)
    /\ alignments = << >>
    /\ result = NoTable
    /\ text = << >>
    /\ hasHeader = FALSE
    /\ lines = << >>
    /\ delimiter = TAB
    /\ line = << >>
    /\ fields = << >>
    /\ options = NoOptions
    /\ blocks = << >>

CallFormatNumbers ==
    /\ pc = "ready"
    /\ pc' = "formatted"
    /\ result' = formatNumbers(data)
    /\ UNCHANGED <<ret, arg, heap, loaded, storage, format, style, text, hasHeader,
                   lines, delimiter, line, fields, data, options, blocks, alignments>>

NextNumbers == CallFormatNumbers

SpecNumbers == InitNumbers /\ [][NextNumbers]_vars

(***************************************************************************)
(* saveData, then loadData (SpecStorage).                                  *)
(***************************************************************************)
MaxInputLen == 1

\* LayoutOptions.splitColumns: 1-10
MaxSplitColumns == 10

StorageChars == {"a", "n", QUOTE, BACKSLASH, NL}

\* The AllOptions value that getOptions builds.
AllOptions == [layout |-> options, style |-> style, format |-> format, hasHeader |-> hasHeader]

InitStorage ==
    /\ pc = "ready"
    /\ ret = << >>
    /\ arg = << >>
    /\ heap = << >>
    /\ loaded = Null
    /\ storage = NoItem
    /\ text \in SeqsUpTo(StorageChars, MaxInputLen)
    /\ options \in [splitColumns : 1..MaxSplitColumns, separatorType : SeparatorTypes]
    /\ style \in [theme : Themes, zebra : BOOLEAN, density : Densities,
                  highlightWords : {<< >>, <<<<"a", QUOTE>>>>},
                  highlightPreset : {"yellow", "custom"},
                  highlightCustomColor : {"#FFFF99"}]
    /\ format \in [addNumbers : BOOLEAN, formatNumbers : BOOLEAN]
    /\ hasHeader \in BOOLEAN
    /\ alignments = << >>
    /\ lines = << >>
    /\ delimiter = TAB
    /\ line = << >>
    /\ fields = << >>
    /\ data = NoTable
    /\ blocks = << >>
    /\ result = NoTable

\* saveData(text, AllOptions); localStorage.setItem returns or throws.
CallSaveData ==
    /\ pc = "ready"
    /\ pc' = "saved"
    /\ \E thrown \in BOOLEAN :
         storage' = IF thrown THEN storage ELSE saveData(text, AllOptions)
    /\ UNCHANGED <<ret, arg, heap, loaded, format, style, alignments, text, hasHeader, lines, delimiter,
                   line, fields, data, options, blocks, result>>

\* loadData(), at start-up or right after saveData.
CallLoadData ==
    /\ pc \in {"ready", "saved"}
    /\ pc' = "loaded"
    /\ loaded' = loadData(storage)
    /\ UNCHANGED <<ret, arg, heap, storage, format, style, alignments, text, hasHeader, lines, delimiter,
                   line, fields, data, options, blocks, result>>

NextStorage == CallSaveData \/ CallLoadData

SpecStorage == InitStorage /\ [][NextStorage]_vars

(***************************************************************************)
(* src/src/main.ts: updatePreview (SpecPipeline).                          *)
(***************************************************************************)
MaxPipelineLen == 5
MaxPipelineSplit == 3

PipelineChars == {"1", COMMA, NL}

\* The table that updatePreview hands to transformLayout: parsed, normalized,
\* numbered and number-formatted as the options say.
layoutInput(t, o) ==
    LET normalized == normalizeColumns(parseInput(t, o.hasHeader))
        numbered == IF o.format.addNumbers THEN addRowNumbers(normalized) ELSE normalized
    IN IF o.format.formatNumbers THEN formatNumbers(numbered) ELSE numbered

\* A variant of previewData that numbers the rows after the layout transformation.
previewDataNumberedLast(t, o) ==
    LET normalized == normalizeColumns(parseInput(t, o.hasHeader))
        formatted == IF o.format.formatNumbers THEN formatNumbers(normalized) ELSE normalized
        laid == transformLayout(formatted, o.layout)
    IN IF o.format.addNumbers THEN addRowNumbers(laid) ELSE laid

\* The table that updatePreview renders.
previewData(t, o) == transformLayout(layoutInput(t, o), o.layout)

InitPipeline ==
    /\ pc = "input"
    /\ ret = << >>
    /\ arg = << >>
    /\ heap = << >>
    /\ loaded = Null
    /\ storage = NoItem
    /\ style = DEFAULT_OPTIONS.style
    /\ text \in SeqsUpTo(PipelineChars, MaxPipelineLen)
    /\ options \in [splitColumns : 1..MaxPipelineSplit, separatorType : SeparatorTypes]
    /\ format \in [addNumbers : BOOLEAN, formatNumbers : BOOLEAN]
    /\ hasHeader \in BOOLEAN
    /\ alignments = << >>
    /\ lines = << >>
    /\ delimiter = TAB
    /\ line = << >>
    /\ fields = << >>
    /\ data = NoTable
    /\ blocks = << >>
    /\ result = NoTable

\* updatePreview(): the placeholder for a blank input; otherwise the pipeline, the
\* rendering of its table (data is the table before the layout, result the table
\* rendered) and saveData, whose localStorage.setItem returns or throws.
UpdatePreview ==
    /\ pc = "input"
    /\ IF Trim(text) = << >>
       THEN /\ pc' = "placeholder"
            /\ UNCHANGED <<ret, arg, heap, data, blocks, result, alignments, storage>>
       ELSE /\ pc' = "preview"
            /\ data' = layoutInput(text, AllOptions)
            /\ blocks' = splitColumns(layoutInput(text, AllOptions), options.splitColumns)
            /\ result' = previewData(text, AllOptions)
            /\ alignments' = detectAlignment(previewData(text, AllOptions))
            /\ \E thrown \in BOOLEAN :
                 storage' = IF thrown THEN storage ELSE saveData(text, AllOptions)
    /\ UNCHANGED <<ret, arg, heap, loaded, format, style, text, hasHeader, lines, delimiter, line, fields,
                   options>>

NextPipeline == UpdatePreview

SpecPipeline == InitPipeline /\ [][NextPipeline]_vars

(***************************************************************************)
(* The stages on arrays that are shared by reference (SpecHeap).           *)
(* An array is an entry of heap, its address the index; a table holds the  *)
(* addresses of its headers array and of its rows array, which holds the   *)
(* addresses of the rows.                                                  *)
(***************************************************************************)
MaxHeapRows == 3
MaxHeapCols == 2
MaxHeapSplit == 3

\* A new array.
Alloc(h, arr) == [heap |-> Append(h, arr), addr |-> Len(h) + 1]

\* A variant of copyArray that returns the array itself.
aliasArray(h, a, i, j) == [heap |-> h, addr |-> a]

\* [...a] and a.slice(i, j): a new array of the elements i .. j-1 of the array a.
copyArray(h, a, i, j) == Alloc(h, SubSeq(h[a], i + 1, j))

\* a.push(...xs)
Push(h, a, xs) == [h EXCEPT ![a] = @ \o xs]

\* New arrays for the rows and a new array that holds them.
AllocRows(h, rows) ==
    [heap |-> (h \o rows) \o <<[i \in 1..Len(rows) |-> Len(h) + i]>>,
     addr |-> Len(h) + Len(rows) + 1]

\* A table object: addresses for headers and rows, and for the index lists if any.
TableRef(headersAddr, rowsAddr, hh) ==
    [headers |-> headersAddr, rows |-> rowsAddr, hasHeader |-> hh,
     separatorColumns |-> Undefined, borderBoundaries |-> Undefined]

\* The index list an optional field refers to.
DerefList(h, field) == IF field.defined THEN Defined(h[field.value]) ELSE Undefined

\* The TableData value a table object stands for.
Deref(h, t) ==
    [headers |-> h[t.headers],
     rows |-> [i \in 1..Len(h[t.rows]) |-> h[h[t.rows][i]]],
     hasHeader |-> t.hasHeader,
     separatorColumns |-> DerefList(h, t.separatorColumns),
     borderBoundaries |-> DerefList(h, t.borderBoundaries)]

DerefAll(h, ts) == [k \in 1..Len(ts) |-> Deref(h, ts[k])]

\* A table object for the value d, all its arrays new.
Store(h, d) ==
    LET hs == Alloc(h, d.headers)
        rs == AllocRows(hs.heap, d.rows)
        sc == Alloc(rs.heap, d.separatorColumns.value)
        bb == Alloc(sc.heap, d.borderBoundaries.value)
    IN [heap |-> bb.heap,
        ret |-> <<[headers |-> hs.addr, rows |-> rs.addr, hasHeader |-> d.hasHeader,
                   separatorColumns |-> IF d.separatorColumns.defined
                                        THEN Defined(sc.addr) ELSE Undefined,
                   borderBoundaries |-> IF d.borderBoundaries.defined
                                        THEN Defined(bb.addr) ELSE Undefined]>>]

\* while (a.length < n) a.push('')
padArray(h, a, n) == Push(h, a, Fill(Max(n - Len(h[a]), 0), EmptyStr))

RECURSIVE padRowsFrom(_, _, _, _, _)
\* data.rows.map(row => { newRow = [...row]; pad newRow; return newRow }) from the
\* row of index i on; acc holds the addresses of the rows made so far.
padRowsFrom(h, rowAddrs, i, maxColumns, acc) ==
    IF i > Len(rowAddrs) THEN Alloc(h, acc)
    ELSE LET newRow == copyArray(h, rowAddrs[i], 0, Len(h[rowAddrs[i]]))
         IN padRowsFrom(padArray(newRow.heap, newRow.addr, maxColumns), rowAddrs, i + 1,
                        maxColumns, Append(acc, newRow.addr))

heapNormalizeColumns(h, t) ==
    LET rowAddrs == h[t.rows]
        maxColumns == Max(Len(h[t.headers]),
                          MaxOf([i \in 1..Len(rowAddrs) |-> Len(h[rowAddrs[i]])]))
        normalizedHeaders == copyArray(h, t.headers, 0, Len(h[t.headers]))
        h1 == padArray(normalizedHeaders.heap, normalizedHeaders.addr, maxColumns)
        normalizedRows == padRowsFrom(h1, rowAddrs, 1, maxColumns, << >>)
    IN [heap |-> normalizedRows.heap,
        ret |-> <<TableRef(normalizedHeaders.addr, normalizedRows.addr, t.hasHeader)>>]

\* ['No.', ...data.headers] and a new [number, ...row] for every row.
heapAddRowNumbers(h, t) ==
    LET numbered == addRowNumbers(Deref(h, t))
        numberedHeaders == Alloc(h, numbered.headers)
        numberedRows == AllocRows(numberedHeaders.heap, numbered.rows)
    IN [heap |-> numberedRows.heap,
        ret |-> <<TableRef(numberedHeaders.addr, numberedRows.addr, t.hasHeader)>>]

\* headers: data.headers (the same array); rows: new arrays from map.
heapFormatNumbers(h, t) ==
    LET formattedRows == AllocRows(h, formatNumbers(Deref(h, t)).rows)
    IN [heap |-> formattedRows.heap,
        ret |-> <<TableRef(t.headers, formattedRows.addr, t.hasHeader)>>]

\* One block of splitColumns: its rows array is new (a slice, or all blank rows), the
\* rows it takes from data are data's row arrays, its headers are data.headers.
heapSplitBlock(h, t, rowsPerColumn, col) ==
    LET totalRows == Len(h[t.rows])
        startIndex == col * rowsPerColumn
        endIndex == Min(startIndex + rowsPerColumn, totalRows)
        blankRow == Fill(Len(h[t.headers]), EmptyStr)
        allBlank == AllocRows(h, Fill(rowsPerColumn, blankRow))
        blockRows == copyArray(h, t.rows, startIndex, endIndex)
        missing == Max(rowsPerColumn - Len(blockRows.heap[blockRows.addr]), 0)
        h1 == blockRows.heap \o Fill(missing, blankRow)
        padded == Push(h1, blockRows.addr,
                       [i \in 1..missing |-> Len(blockRows.heap) + i])
    IN IF startIndex >= totalRows
       THEN [heap |-> allBlank.heap,
             ret |-> <<TableRef(t.headers, allBlank.addr, t.hasHeader)>>]
       ELSE [heap |-> padded,
             ret |-> <<TableRef(t.headers, blockRows.addr, t.hasHeader)>>]

RECURSIVE heapSplitFrom(_, _, _, _, _, _)
\* The for loop of splitColumns from col on; acc holds the blocks pushed so far.
heapSplitFrom(h, t, columns, rowsPerColumn, col, acc) ==
    IF col >= columns THEN [heap |-> h, ret |-> acc]
    ELSE LET block == heapSplitBlock(h, t, rowsPerColumn, col)
         IN heapSplitFrom(block.heap, t, columns, rowsPerColumn, col + 1,
                          acc \o block.ret)

heapSplitColumns(h, t, columns) ==
    IF columns <= 1 \/ Len(h[t.rows]) = 0 THEN [heap |-> h, ret |-> <<t>>]
    ELSE heapSplitFrom(h, t, columns, Ceil(Len(h[t.rows]), columns), 0, << >>)

\* No block: a new empty table. One block: that block. Otherwise mergedHeaders,
\* mergedRows and its rows, separatorColumns and borderBoundaries are new arrays that
\* receive every push of the function.
heapMergeBlocks(h, ts, opts) ==
    IF Len(ts) = 1 THEN [heap |-> h, ret |-> ts]
    ELSE LET merged == Store(h, mergeBlocks(DerefAll(h, ts), opts))
         IN [heap |-> merged.heap, ret |-> merged.ret]

heapTransformLayout(h, t, opts) ==
    LET split == heapSplitColumns(h, t, opts.splitColumns)
    IN heapMergeBlocks(split.heap, split.ret, opts)

\* The rows of the tables the stages are called on: [], ['1'] and ['', 'x'].
HeapRows == {<< >>, <<<<"1">>>>, <<EmptyStr, <<"x">>>>}

InitHeap ==
    /\ pc = "start"
    /\ \E w \in 0..MaxHeapCols, n \in 0..MaxHeapRows :
         \E rs \in [1..n -> HeapRows], hh \in BOOLEAN, marks \in SeparatorTypes :
            LET d == [LayoutTable(w, 0, {}, TRUE, hh, marks) EXCEPT !.rows = rs]
            IN /\ data = d
               /\ heap = Store(<< >>, d).heap
               /\ arg = Store(<< >>, d).ret
    /\ ret = << >>
    /\ options \in [splitColumns : 1..MaxHeapSplit, separatorType : SeparatorTypes]
    /\ loaded = Null
    /\ storage = NoItem
    /\ format = DEFAULT_OPTIONS.format
    /\ style = DEFAULT_OPTIONS.style
    /\ alignments = << >>
    /\ blocks = << >>
    /\ result = NoTable
    /\ text = << >>
    /\ hasHeader = FALSE
    /\ lines = << >>
    /\ delimiter = TAB
    /\ line = << >>
    /\ fields = << >>

\* The call of a stage on the table arg[1], out being the heap it leaves and the
\* tables it returns: data keeps the value of the argument before the call.
StageReturns(name, out) ==
    /\ pc = "start"
    /\ pc' = name
    /\ heap' = out.heap
    /\ ret' = out.ret
    /\ result' = Deref(out.heap, out.ret[1])
    /\ blocks' = DerefAll(out.heap, out.ret)
    /\ UNCHANGED <<arg, data, options, loaded, storage, format, style, alignments, text,
                   hasHeader, lines, delimiter, line, fields>>

HeapNormalizeColumns == StageReturns("normalizeColumns", heapNormalizeColumns(heap, arg[1]))

HeapAddRowNumbers == StageReturns("addRowNumbers", heapAddRowNumbers(heap, arg[1]))

HeapFormatNumbers == StageReturns("formatNumbers", heapFormatNumbers(heap, arg[1]))

HeapSplitColumns ==
    StageReturns("splitColumns", heapSplitColumns(heap, arg[1], options.splitColumns))

HeapTransformLayout ==
    StageReturns("transformLayout", heapTransformLayout(heap, arg[1], options))

\* mergeBlocks on the blocks that splitColumns returned: blocks keeps their values
\* before the call.
HeapMergeBlocks ==
    /\ pc = "splitColumns"
    /\ pc' = "mergeBlocks"
    /\ arg' = ret
    /\ heap' = heapMergeBlocks(heap, ret, options).heap
    /\ ret' = heapMergeBlocks(heap, ret, options).ret
    /\ result' = Deref(heapMergeBlocks(heap, ret, options).heap,
                       heapMergeBlocks(heap, ret, options).ret[1])
    /\ UNCHANGED <<blocks, data, options, loaded, storage, format, style, alignments, text,
                   hasHeader, lines, delimiter, line, fields>>

NextHeap ==
    \/ HeapNormalizeColumns
    \/ HeapAddRowNumbers
    \/ HeapFormatNumbers
    \/ HeapSplitColumns
    \/ HeapTransformLayout
    \/ HeapMergeBlocks

SpecHeap == InitHeap /\ [][NextHeap]_vars

(***************************************************************************)
(* Properties of splitColumns and transformLayout (SpecLayout).            *)
(***************************************************************************)
\* The arguments of the layout call: R rows, n blocks asked for.
SplitCase == options.splitColumns > 1 /\ Len(data.rows) >= 1
PassThroughCase == options.splitColumns <= 1 \/ Len(data.rows) = 0

\* h = ceil(R / n), stated without division: the least h with h * n >= R.
IsCeilOf(h, R, n) == h * n >= R /\ (h - 1) * n < R

AllCellsEmpty(row) == \A c \in 1..Len(row) : row[c] = EmptyStr

\* C1: for a table with R >= 1 rows and n > 1, splitColumns returns exactly n blocks,
\* each of exactly ceil(R/n) rows and with the table's headers and hasHeader; the
\* blocks' rows concatenated in block order begin with the table's R rows in their
\* order, and every row after them is an all-empty padding row.
C1_SplitColumnsBlocks ==
    (pc = "split" /\ SplitCase) =>
        LET R == Len(data.rows)
            n == options.splitColumns
            cat == Flatten([b \in 1..Len(blocks) |-> blocks[b].rows])
        IN /\ Len(blocks) = n
           /\ \A b \in 1..Len(blocks) :
                /\ IsCeilOf(Len(blocks[b].rows), R, n)
                /\ blocks[b].headers = data.headers
                /\ blocks[b].hasHeader = data.hasHeader
           /\ Len(cat) >= R
           /\ SubSeq(cat, 1, R) = data.rows
           /\ \A i \in (R + 1)..Len(cat) : AllCellsEmpty(cat[i])

\* C1 witness: three rows in two blocks: the second block holds the third row and one
\* padding row.
C1_Witness ==
    /\ pc = "split"
    /\ options.splitColumns = 2
    /\ Len(data.rows) = 3
    /\ Len(data.headers) = 2
    /\ ~AllCellsEmpty(data.rows[3])
    /\ Len(blocks) = 2
    /\ blocks[2].rows = <<data.rows[3], <<EmptyStr, EmptyStr>>>>

\* The cell the claim puts at the 0-based row i and column j of the merged table of
\* n blocks of w columns and h rows, s separator columns between two blocks.
ExpectedCell(i, j, w, h, s) ==
    LET b == j \div (w + s)
        c == j % (w + s)
        r == b * h + i
    IN IF c < w /\ r < Len(data.rows) THEN data.rows[r + 1][c + 1] ELSE EmptyStr

ExpectedHeader(j, w, s) ==
    LET c == j % (w + s)
    IN IF c < w THEN data.headers[c + 1] ELSE EmptyStr

\* C2: for a uniform table of R >= 1 rows and w columns and n > 1, transformLayout
\* returns h = ceil(R/n) rows and n*w + (n-1)*s columns (s = 1 for "column", else 0);
\* the headers are repeated at the offset b*(w+s) of every block b, the cell (r, c)
\* is at the row r mod h and the column floor(r/h)*(w+s) + c, and every other cell
\* is ''.
C2_DownThenAcross ==
    (pc = "laid" /\ SplitCase) =>
        LET R == Len(data.rows)
            w == Len(data.headers)
            n == options.splitColumns
            s == IF options.separatorType = "column" THEN 1 ELSE 0
            h == Len(result.rows)
            width == n * w + (n - 1) * s
        IN /\ IsCeilOf(h, R, n)
           /\ Len(result.headers) = width
           /\ \A j \in 0..(width - 1) : result.headers[j + 1] = ExpectedHeader(j, w, s)
           /\ \A i \in 0..(h - 1) :
                /\ Len(result.rows[i + 1]) = width
                /\ \A j \in 0..(width - 1) :
                     result.rows[i + 1][j + 1] = ExpectedCell(i, j, w, h, s)
           /\ \A r \in 0..(R - 1) : \A c \in 0..(w - 1) :
                result.rows[(r % h) + 1][(r \div h) * (w + s) + c + 1] = data.rows[r + 1][c + 1]

\* C2 witness: three labelled rows of two columns in two blocks with a separator
\* column: the third row is at the top of the second block, right of the separator.
C2_Witness ==
    /\ pc = "laid"
    /\ options = [splitColumns |-> 2, separatorType |-> "column"]
    /\ Len(data.rows) = 3
    /\ Len(data.headers) = 2
    /\ \A r \in 1..3 : ~AllCellsEmpty(data.rows[r])
    /\ ~AllCellsEmpty(data.headers)
    /\ result.headers = data.headers \o <<EmptyStr>> \o data.headers
    /\ result.rows = << data.rows[1] \o <<EmptyStr>> \o data.rows[3],
                        data.rows[2] \o <<EmptyStr, EmptyStr, EmptyStr>> >>

\* C6: for n <= 1 with any table, and for any n with a table without rows,
\* splitColumns returns the one-element list of the table and transformLayout
\* returns the table itself, its separatorColumns and borderBoundaries included,
\* whatever the separatorType.
C6_PassThrough ==
    /\ (pc = "split" /\ PassThroughCase) => blocks = <<data>>
    /\ (pc = "laid" /\ PassThroughCase) => result = data

\* C6 witness: a table with rows and a separatorColumns of its own, laid out with
\* n = 0 and the separatorType "column", comes back as it is.
C6_Witness ==
    /\ pc = "laid"
    /\ options = [splitColumns |-> 0, separatorType |-> "column"]
    /\ Len(data.rows) = 3
    /\ Len(data.headers) = 2
    /\ data.borderBoundaries.defined
    /\ result = data

\* C6 witness for the other case: a table without rows and n > 1.
C6_WitnessNoRows ==
    /\ pc = "laid"
    /\ options.splitColumns = 3
    /\ Len(data.rows) = 0
    /\ Len(data.headers) = 2
    /\ Len(result.headers) = 2

(***************************************************************************)
(* Properties of mergeBlocks (SpecMerge).                                  *)
(***************************************************************************)
RECURSIVE HeaderLengthSum(_, _)
\* The sum of the header lengths of the blocks 1..k of bs.
HeaderLengthSum(bs, k) ==
    IF k = 0 THEN 0 ELSE Len(bs[k].headers) + HeaderLengthSum(bs, k - 1)

MergeCase(separatorType) ==
    pc = "merged" /\ Len(blocks) >= 2 /\ options.separatorType = separatorType

\* C3: mergeBlocks with the separatorType "column" on k >= 2 blocks gives a header
\* of the blocks' header lengths plus k-1 cells and k-1 entries in separatorColumns,
\* each the index of a column whose header and whose cell in every row is ''.
C3_SeparatorColumns ==
    MergeCase("column") =>
        LET k == Len(blocks)
            sep == result.separatorColumns
        IN /\ Len(result.headers) = HeaderLengthSum(blocks, k) + (k - 1)
           /\ sep.defined
           /\ Len(sep.value) = k - 1
           /\ \A i, j \in 1..Len(sep.value) : i # j => sep.value[i] # sep.value[j]
           /\ \A i \in 1..Len(sep.value) :
                LET col == sep.value[i] + 1
                IN /\ col \in 1..Len(result.headers)
                   /\ result.headers[col] = EmptyStr
                   /\ \A r \in 1..Len(result.rows) :
                        /\ col \in 1..Len(result.rows[r])
                        /\ result.rows[r][col] = EmptyStr

\* C3 witness: three blocks of different widths and heights, two separator columns.
C3_Witness ==
    /\ MergeCase("column")
    /\ Len(blocks) = 3
    /\ Len(blocks[1].headers) = 2 /\ Len(blocks[1].rows) = 1
    /\ Len(blocks[2].headers) = 1 /\ Len(blocks[2].rows) = 2
    /\ Len(blocks[3].headers) = 2 /\ Len(blocks[3].rows) = 2
    /\ result.separatorColumns = Defined(<<2, 4>>)
    /\ Len(result.headers) = 7
    /\ Len(result.rows) = 2

\* C4: mergeBlocks with the separatorType "border" on k >= 2 blocks adds no column,
\* and borderBoundaries has k-1 entries, the i-th (from 0) being the sum of the header
\* lengths of the blocks 0..i minus one.
C4_BorderBoundaries ==
    MergeCase("border") =>
        LET k == Len(blocks)
            bb == result.borderBoundaries
        IN /\ Len(result.headers) = HeaderLengthSum(blocks, k)
           /\ \A r \in 1..Len(result.rows) : Len(result.rows[r]) = Len(result.headers)
           /\ bb.defined
           /\ Len(bb.value) = k - 1
           /\ \A i \in 1..(k - 1) : bb.value[i] = HeaderLengthSum(blocks, i) - 1

\* C4 witness: three blocks of two, one and two columns: the boundaries are 1 and 2.
C4_Witness ==
    /\ MergeCase("border")
    /\ Len(blocks) = 3
    /\ Len(blocks[1].headers) = 2
    /\ Len(blocks[2].headers) = 1
    /\ Len(blocks[3].headers) = 2
    /\ result.borderBoundaries = Defined(<<1, 2>>)
    /\ Len(result.headers) = 5

IsColumnIndex(x, tbl) == x \in 0..(Len(tbl.headers) - 1)

\* C5: on two or more blocks (blocks without columns included) and with every
\* separatorType, each entry of the result's separatorColumns and borderBoundaries
\* is a column index of the result: it lies in 0 .. headers.length - 1.
C5_IndicesInMergedTable ==
    (pc = "merged" /\ Len(blocks) >= 2) =>
        /\ \A i \in 1..Len(result.separatorColumns.value) :
             IsColumnIndex(result.separatorColumns.value[i], result)
        /\ \A i \in 1..Len(result.borderBoundaries.value) :
             IsColumnIndex(result.borderBoundaries.value[i], result)

\* C14: mergeBlocks on two or more blocks returns separatorColumns exactly when the
\* separatorType is "column" and borderBoundaries exactly when it is "border", neither
\* for "none", never both, and a list that is present is never empty.
C14_ListsBySeparatorType ==
    (pc = "merged" /\ Len(blocks) >= 2) =>
        /\ result.separatorColumns.defined <=> options.separatorType = "column"
        /\ result.borderBoundaries.defined <=> options.separatorType = "border"
        /\ ~(result.separatorColumns.defined /\ result.borderBoundaries.defined)
        /\ result.separatorColumns.defined => Len(result.separatorColumns.value) > 0
        /\ result.borderBoundaries.defined => Len(result.borderBoundaries.value) > 0
        /\ ~result.separatorColumns.defined => result.separatorColumns = Undefined
        /\ ~result.borderBoundaries.defined => result.borderBoundaries = Undefined

\* C14 witnesses: two or more blocks merged with "none", with neither list.
C14_Witness ==
    /\ MergeCase("none")
    /\ Len(blocks) = 3
    /\ Len(result.headers) > 0
    /\ ~result.separatorColumns.defined
    /\ ~result.borderBoundaries.defined

(***************************************************************************)
(* Properties of the parser (SpecParse, SpecLine).                         *)
(***************************************************************************)
IsPaddingOf(padded, row) ==
    /\ Len(padded) >= Len(row)
    /\ SubSeq(padded, 1, Len(row)) = row
    /\ \A c \in (Len(row) + 1)..Len(padded) : padded[c] = EmptyStr

\* C7: for every text and both hasHeader, in normalizeColumns(parseInput(text,
\* hasHeader)) every row has headers.length cells, that length is the greatest of the
\* parsed header's and the parsed rows' lengths, and the parsed header and every
\* parsed row is a prefix of its normalized version, which has only '' after it.
C7_NormalizedAfterParse ==
    pc = "normalized" =>
        LET width == Len(result.headers)
            parsedLengths == {Len(data.headers)} \cup {Len(data.rows[i]) : i \in 1..Len(data.rows)}
        IN /\ width \in parsedLengths
           /\ \A l \in parsedLengths : l <= width
           /\ Len(result.rows) = Len(data.rows)
           /\ IsPaddingOf(result.headers, data.headers)
           /\ \A i \in 1..Len(result.rows) :
                /\ Len(result.rows[i]) = width
                /\ IsPaddingOf(result.rows[i], data.rows[i])
           /\ result.hasHeader = data.hasHeader

\* C7 witness: a header line of one field and a data line of two: the header is
\* padded to two cells.
C7_Witness ==
    /\ pc = "normalized"
    /\ hasHeader
    /\ Len(data.headers) = 1
    /\ Len(data.rows) = 1
    /\ Len(data.rows[1]) = 2
    /\ result.headers = data.headers \o <<EmptyStr>>
    /\ result.rows = data.rows

\* C7 witness without header: two parsed rows of different lengths.
C7_WitnessRagged ==
    /\ pc = "normalized"
    /\ ~hasHeader
    /\ Len(data.rows) = 2
    /\ Len(data.rows[1]) = 2
    /\ Len(data.rows[2]) = 1
    /\ result.rows[2] = data.rows[2] \o <<EmptyStr>>

\* The lines parseInput has parsed, header line included.
ParsedLines(tbl) == IF tbl.hasHeader THEN <<tbl.headers>> \o tbl.rows ELSE tbl.rows

\* The delimiter by the counts over the whole input text; a tie is a tab.
DelimiterOfWholeText(t) ==
    IF CountChar(t, TAB) >= CountChar(t, COMMA) THEN TAB ELSE COMMA

\* C8: parseInput chooses the delimiter by the numbers of tabs and of commas in the
\* whole input text: with at least as many tabs as commas every line is split on
\* tab, otherwise every line is split on comma.
C8_DelimiterByWholeText ==
    (pc = "parsed" /\ lines # << >>) =>
        /\ delimiter = DelimiterOfWholeText(text)
        /\ ParsedLines(result) =
             [i \in 1..Len(lines) |-> parseLine(lines[i], DelimiterOfWholeText(text))]

RECURSIVE DelimitersOutsideQuotes(_, _, _, _)
\* The number of characters delim of ln from index i on that are outside quotes,
\* inQuotes telling whether index i is inside quotes.
DelimitersOutsideQuotes(ln, delim, i, inQuotes) ==
    IF i > Len(ln) THEN 0
    ELSE IF inQuotes
         THEN IF ln[i] = QUOTE /\ i < Len(ln) /\ ln[i + 1] = QUOTE
              THEN DelimitersOutsideQuotes(ln, delim, i + 2, TRUE)
              ELSE DelimitersOutsideQuotes(ln, delim, i + 1, ln[i] # QUOTE)
         ELSE IF ln[i] = QUOTE THEN DelimitersOutsideQuotes(ln, delim, i + 1, TRUE)
         ELSE (IF ln[i] = delim THEN 1 ELSE 0)
                  + DelimitersOutsideQuotes(ln, delim, i + 1, FALSE)

\* The lines of the input text from its first to its last line that is not blank:
\* the lines that parseInput keeps.
KeptLines(t) ==
    LET raw == SplitLines(t)
        nonBlank == {i \in 1..Len(raw) : Trim(raw[i]) # << >>}
    IN IF nonBlank = {} THEN << >>
       ELSE SubSeq(raw, CHOOSE i \in nonBlank : \A j \in nonBlank : i <= j,
                        CHOOSE i \in nonBlank : \A j \in nonBlank : i >= j)

\* C15: every line of the input text that parseInput keeps is parsed into exactly one
\* more field than it has delimiter characters outside quotes, so a leading delimiter
\* of the first line and a trailing delimiter of the last line give an empty cell.
C15_FieldsPerLine ==
    (pc = "parsed" /\ lines # << >>) =>
        LET kept == KeptLines(text)
            parsed == ParsedLines(result)
        IN /\ Len(parsed) = Len(kept)
           /\ \A i \in 1..Len(kept) :
                Len(parsed[i]) = 1 + DelimitersOutsideQuotes(kept[i], delimiter, 1, FALSE)

HasNoQuote(s) == \A i \in 1..Len(s) : s[i] # QUOTE

\* C9: in parseLine a delimiter inside a quoted section is literal text and starts no
\* field, a doubled quote inside a quoted section gives one quote, and the quotes that
\* open and close a section are not part of the field: a line that is one quoted
\* section gives the one field of its (trimmed) content, a line with one quoted
\* section has one field more than delimiters outside the section, and "a,b" gives
\* a,b and "a""b" gives a"b.
C9_Quoting ==
    pc = "fields" =>
        LET n == Len(line)
        IN /\ (n >= 2 /\ line[1] = QUOTE /\ line[n] = QUOTE /\ HasNoQuote(SubSeq(line, 2, n - 1)))
                => fields = <<Trim(SubSeq(line, 2, n - 1))>>
           /\ \A k \in 2..(n - 3) :
                (/\ line[1] = QUOTE /\ line[n] = QUOTE
                 /\ line[k + 1] = QUOTE /\ line[k + 2] = QUOTE
                 /\ HasNoQuote(SubSeq(line, 2, k)) /\ HasNoQuote(SubSeq(line, k + 3, n - 1)))
                => fields = <<Trim(SubSeq(line, 2, k) \o <<QUOTE>> \o SubSeq(line, k + 3, n - 1))>>
           /\ \A p, q \in 1..n :
                (/\ p < q /\ line[p] = QUOTE /\ line[q] = QUOTE
                 /\ CountChar(line, QUOTE) = 2)
                => Len(fields) = 1 + CountChar(SubSeq(line, 1, p - 1), delimiter)
                                   + CountChar(SubSeq(line, q + 1, n), delimiter)
           /\ (line = <<QUOTE, "a", COMMA, "b", QUOTE>> /\ delimiter = COMMA)
                => fields = << <<"a", COMMA, "b">> >>
           /\ line = <<QUOTE, "a", QUOTE, QUOTE, "b", QUOTE>>
                => fields = << <<"a", QUOTE, "b">> >>

\* C9 witness: the line "a""b" has been parsed to the one field a"b.
C9_Witness ==
    /\ pc = "fields"
    /\ line = <<QUOTE, "a", QUOTE, QUOTE, "b", QUOTE>>
    /\ delimiter = COMMA
    /\ fields = << <<"a", QUOTE, "b">> >>

\* C9 witness for the delimiter in quotes: "a,b" has been parsed to the one field a,b.
C9_WitnessDelimiter ==
    /\ pc = "fields"
    /\ line = <<QUOTE, "a", COMMA, "b", QUOTE>>
    /\ delimiter = COMMA
    /\ fields = << <<"a", COMMA, "b">> >>

(***************************************************************************)
(* Properties of the formatter (SpecFormat).                               *)
(***************************************************************************)
\* The number of rows before row i (1-based) that are not all-empty.
NonBlankBefore(rows, i) == Cardinality({j \in 1..(i - 1) : ~AllCellsEmpty(rows[j])})

\* C10: addRowNumbers prepends the header "No." and one cell to every row and leaves
\* the other cells as they are: an all-empty row gets '', every other row the decimal
\* string of 1 plus the number of non-blank rows before it.
C10_RowNumbers ==
    pc = "numbered" =>
        /\ result.headers = << <<"N", "o", ".">> >> \o data.headers
        /\ result.hasHeader = data.hasHeader
        /\ Len(result.rows) = Len(data.rows)
        /\ \A i \in 1..Len(data.rows) :
             /\ Len(result.rows[i]) = Len(data.rows[i]) + 1
             /\ Tail(result.rows[i]) = data.rows[i]
             /\ Head(result.rows[i]) =
                  IF AllCellsEmpty(data.rows[i]) THEN EmptyStr
                  ELSE <<DecimalDigits[NonBlankBefore(data.rows, i) + 2]>>

\* C10 witness: the rows a, blank, b are numbered 1, '', 2.
C10_Witness ==
    /\ pc = "numbered"
    /\ Len(data.headers) = 1
    /\ data.rows = << << <<"x">> >>, <<EmptyStr>>, << <<"x">> >> >>
    /\ result.rows = << << <<"1">>, <<"x">> >>, <<EmptyStr, EmptyStr>>, << <<"2">>, <<"x">> >> >>

(***************************************************************************)
(* Properties of detectAlignment (SpecAlign).                              *)
(***************************************************************************)
\* C11: detectAlignment returns one alignment per header column; a column is "right"
\* exactly when it has a non-empty value and the values isNumeric accepts are at least
\* half of its non-empty values (a tie is "right"); a column without rows or with empty
\* values only is "left", and empty cells do not count in the fraction.
C11_Alignment ==
    pc = "aligned" =>
        /\ Len(alignments) = Len(data.headers)
        /\ \A c \in 1..Len(data.headers) :
             LET nonEmpty == {r \in 1..Len(data.rows) : data.rows[r][c] # EmptyStr}
                 numeric == {r \in nonEmpty : isNumeric(data.rows[r][c])}
             IN alignments[c] =
                  IF nonEmpty # {} /\ 2 * Cardinality(numeric) >= Cardinality(nonEmpty)
                  THEN "right" ELSE "left"

\* C11 witness: the first column has one numeric, one other and one empty value (a tie),
\* the second one numeric value in three.
C11_Witness ==
    /\ pc = "aligned"
    /\ Len(data.rows) = 3
    /\ Len(data.headers) = 2
    /\ [r \in 1..3 |-> data.rows[r][1]] = << <<"-", "1", COMMA, "5">>, <<"1", ".">>, EmptyStr >>
    /\ [r \in 1..3 |-> data.rows[r][2]] = << <<"1", ".">>, <<"1", ".">>, <<"-", "1", COMMA, "5">> >>
    /\ alignments = <<"right", "left">>


(***************************************************************************)
(* Properties of formatNumbers (SpecNumbers).                              *)
(***************************************************************************)
IsBareInteger(s) == s # << >> /\ \A i \in 1..Len(s) : s[i] \in Digits

\* C12: formatNumbers leaves headers, hasHeader, the number of rows and every row's
\* length unchanged; a cell whose trimmed value is not an optional minus sign, digits
\* and an optional decimal part is returned unchanged; a bare integer cell is replaced
\* by the decimal representation of its value with a comma every three digits.
C12_FormatNumbers ==
    pc = "formatted" =>
        /\ result.headers = data.headers
        /\ result.hasHeader = data.hasHeader
        /\ Len(result.rows) = Len(data.rows)
        /\ \A r \in 1..Len(data.rows) :
             /\ Len(result.rows[r]) = Len(data.rows[r])
             /\ \A c \in 1..Len(data.rows[r]) :
                  LET cell == data.rows[r][c]
                  IN /\ ~MatchesNumber(Trim(cell), Digits) => result.rows[r][c] = cell
                     /\ IsBareInteger(cell) =>
                          result.rows[r][c] = groupThousands(StripLeadingZeros(cell))


(***************************************************************************)
(* Properties of saveData and loadData (SpecStorage).                      *)
(***************************************************************************)
\* C17: loadData called right after saveData(input, options) has stored its item
\* returns the same input and the same options, for every separatorType of none,
\* column, border, every splitColumns of 1..10, every theme, density and format flag.
C17_RoundTrip ==
    (pc = "loaded" /\ storage.present) =>
        /\ ~loaded.isNull
        /\ loaded.input = text
        /\ loaded.options = AllOptions


(***************************************************************************)
(* Properties of updatePreview (SpecPipeline).                             *)
(***************************************************************************)
\* The pipeline ran with row numbering on and splitColumns n > 1.
NumberedSplitCase ==
    pc = "preview" /\ format.addNumbers /\ options.splitColumns > 1

\* The number of blocks of the rendered table, their width and the distance between
\* the first columns of two neighbouring blocks.
PreviewBlocks == IF Len(data.rows) >= 1 THEN options.splitColumns ELSE 1
PreviewBlockWidth == Len(data.headers)
PreviewStride == PreviewBlockWidth + (IF options.separatorType = "column" THEN 1 ELSE 0)

\* The cell of column c in the row of position p, the positions counted block by
\* block from left to right and from top to bottom within a block.
PreviewCell(p, c) ==
    LET h == Len(result.rows)
    IN result.rows[((p - 1) % h) + 1][((p - 1) \div h) * PreviewStride + c]

PreviewNonBlank(p) == \E c \in 2..PreviewBlockWidth : PreviewCell(p, c) # EmptyStr

\* C16: with row numbering on and splitColumns n > 1 the rows are numbered before
\* the layout splits them: every block of the rendered table has its own "No." column,
\* the numbers of the non-blank rows, read block by block, are 1, 2, ..., k, and every
\* blank row, the padding rows of the layout among them, has an empty numbering cell.
C16_NumberedBeforeSplit ==
    NumberedSplitCase =>
        LET h == Len(result.rows)
        IN /\ Len(data.rows) >= 1 => h = Ceil(Len(data.rows), options.splitColumns)
           /\ Len(result.headers) = PreviewBlocks * PreviewStride
                                      - (PreviewStride - PreviewBlockWidth)
           /\ \A b \in 1..PreviewBlocks :
                result.headers[(b - 1) * PreviewStride + 1] = <<"N", "o", ".">>
           /\ \A p \in 1..(PreviewBlocks * h) :
                /\ PreviewCell(p, 1) =
                     IF PreviewNonBlank(p)
                     THEN ToDecimal(Cardinality({q \in 1..p : PreviewNonBlank(q)}))
                     ELSE EmptyStr
                /\ p > Len(data.rows) =>
                     /\ ~PreviewNonBlank(p)
                     /\ PreviewCell(p, 1) = EmptyStr

\* C16 witness: three data rows, the second blank, in two blocks divided by a
\* separator column: numbers 1 and '' in the first block, 2 and a padding row in the
\* second.
C16_Witness ==
    /\ NumberedSplitCase
    /\ options = [splitColumns |-> 2, separatorType |-> "column"]
    /\ ~hasHeader
    /\ text = <<"1", NL, NL, "1", "1">>
    /\ result.headers = <<<<"N", "o", ".">>, EmptyStr, EmptyStr, <<"N", "o", ".">>, EmptyStr>>
    /\ result.rows = << <<<<"1">>, <<"1">>, EmptyStr, <<"2">>, <<"1", "1">>>>,
                        <<EmptyStr, EmptyStr, EmptyStr, EmptyStr, EmptyStr>> >>


(***************************************************************************)
(* Properties of the stages on shared arrays (SpecHeap).                   *)
(***************************************************************************)
TableStages ==
    {"normalizeColumns", "addRowNumbers", "formatNumbers", "splitColumns",
     "transformLayout"}

\* C13: no stage mutates its argument: after normalizeColumns, addRowNumbers,
\* formatNumbers, splitColumns, transformLayout the argument table, and after
\* mergeBlocks every block of the argument list, has the headers, rows, cells,
\* hasHeader, separatorColumns and borderBoundaries it had before the call, also when
\* the result shares header or row arrays with the argument.
C13_NoMutation ==
    /\ pc \in TableStages => Deref(heap, arg[1]) = data
    /\ pc = "mergeBlocks" => DerefAll(heap, arg) = blocks

\* C13 witness: splitColumns returned two blocks whose rows are the argument's row
\* arrays and whose headers are the argument's headers array, and pushed a padding
\* row onto the second block's rows.
C13_Witness ==
    /\ pc = "splitColumns"
    /\ Len(ret) = 2
    /\ Len(data.rows) = 3
    /\ ret[1].headers = arg[1].headers
    /\ ret[2].headers = arg[1].headers
    /\ ret[1].rows # arg[1].rows
    /\ heap[ret[1].rows] = SubSeq(heap[arg[1].rows], 1, 2)
    /\ heap[ret[2].rows][1] = heap[arg[1].rows][3]
    /\ Len(heap[ret[2].rows]) = 2

\* C13 witness: mergeBlocks returned the only block of its argument list, which is
\* the table splitColumns was called on.
C13_WitnessSameTable ==
    /\ pc = "mergeBlocks"
    /\ Len(arg) = 1
    /\ ret = arg
    /\ Len(data.rows) >= 1

====
